---- MODULE Spec2Model ----
(***************************************************************************)
(* A model of arachne's directed hypergraph (src/src/arachne/model.py):    *)
(* Node, DirectedHypergraph and StringDirectedHypergraph.                  *)
(*                                                                         *)
(* Identifiers are the naturals 1, 2, ... in allocation order (uuid4 in    *)
(* the source: fresh, never reused).  The node mapping is a function from  *)
(* the live identifiers to node records; a Python dict iterates in         *)
(* insertion order, which is the increasing order of the identifiers.      *)
(* Contents are sequences of characters.  Sequences are 1-based here and   *)
(* 0-based in the source; the comments give the source's indices.          *)
(***************************************************************************)
EXTENDS Naturals, Sequences, FiniteSets, TLC

VARIABLES nodes, edges, nextId, last

vars == <<nodes, edges, nextId, last>>

(***************************************************************************)
(* Bounds of the model.                                                    *)
(***************************************************************************)
\* identifiers allocated by add_node, merge and split under Spec
MaxIds == 3
\* nodes in the mapping at a time under Spec
MaxLive == 2
\* identifiers in the hyperedges stored by add_edge calls under Spec
MaxCells == 4
\* identifiers allocated under SpecEdge
EdgeMaxIds == 2
\* identifiers in the stored hyperedges under SpecEdge
EdgeMaxCells == 5
\* identifiers allocated under SpecBuild
BuildMaxIds == 3
\* identifiers in the stored hyperedges under SpecBuild
BuildMaxCells == 6
\* identifiers allocated under SpecTree
TreeMaxIds == 5
\* identifiers allocated under SpecRewrite
RewriteMaxIds == 4
\* nodes in the mapping at a time under SpecRewrite
RewriteMaxLive == 3
\* identifiers in the hyperedges stored by add_edge calls under SpecRewrite
RewriteMaxCells == 4
\* identifiers allocated under SpecSave
SaveMaxIds == 3
\* nodes in the mapping at a time under SpecSave
SaveMaxLive == 2
\* identifiers in the hyperedges stored by add_edge calls under SpecSave
SaveMaxCells == 3
\* identifiers allocated by add_node under SpecRefactor
RefactorMaxIds == 4
\* identifiers in the hyperedges stored by add_edge calls under SpecRefactor
RefactorMaxCells == 6
\* identifiers allocated under SpecLineage
LineageMaxIds == 4
\* nodes in the mapping at a time under SpecLineage
LineageMaxLive == 3
\* identifiers in the hyperedges stored by add_edge calls under SpecLineage
LineageMaxCells == 5

\* lengths of the hyperedges the callers pass to add_edge
EdgeLens == {2, 3}

\* the nodes the callers pass to add_node: content and metadata
EmptyMeta == {}
NodeInputs == { [content |-> <<"a", "b">>, metadata |-> {"k"}] }

\* the nodes passed to add_node under SpecRefactor: two contents
RefactorInputs ==
    { [content |-> <<"a">>, metadata |-> EmptyMeta],
      [content |-> <<"b">>, metadata |-> EmptyMeta] }

(***************************************************************************)
(* Sequence helpers (Python list operations).                              *)
(***************************************************************************)
\* s[::-1]
Reverse(s) == [i \in 1..Len(s) |-> s[Len(s) + 1 - i]]

\* x in s
Contains(s, x) == \E i \in 1..Len(s) : s[i] = x

\* s with the element at (1-based) position k deleted
DropAt(s, k) == [i \in 1..(Len(s) - 1) |-> IF i < k THEN s[i] ELSE s[i + 1]]

\* list.remove(x): deletes the first value-equal occurrence
ListRemove(s, x) ==
    LET k == CHOOSE i \in 1..Len(s) : s[i] = x /\ \A j \in 1..(i - 1) : s[j] # x
    IN DropAt(s, k)

\* the sequences over S of the lengths in lens
SeqsOf(S, lens) == UNION { [1..n -> S] : n \in lens }

\* the elements of a finite set of naturals in increasing order
RECURSIVE SortedSeq(_)
SortedSeq(S) ==
    IF S = {} THEN <<>>
    ELSE LET m == CHOOSE x \in S : \A y \in S : x <= y
         IN <<m>> \o SortedSeq(S \ {m})

(***************************************************************************)
(* Node and the graph value the operations transform.                      *)
(***************************************************************************)
\* Node(content, metadata): the ancestry defaults to the empty list
Node(c, m) == [content |-> c, metadata |-> m, ancestry |-> <<>>]

\* the graph as one value: the node mapping, the edge list, the next fresh
\* identifier, and whether the call raised (the exception that propagates)
Graph(ns, es, nx) == [nodes |-> ns, edges |-> es, next |-> nx, err |-> "ok"]

\* iteration order of self.nodes
NodeOrder(g) == SortedSeq(DOMAIN g.nodes)

(***************************************************************************)
(* DirectedHypergraph: structural mutation.                                *)
(***************************************************************************)
\* add_node: store the node under a fresh identifier (returned: g.next)
add_node(g, node) ==
    [g EXCEPT !.nodes = g.nodes @@ (g.next :> node), !.next = g.next + 1]

\* self.nodes[id].ancestry.append(p); a missing id raises KeyError
AppendAncestry(g, id, p) ==
    IF g.err # "ok" THEN g
    ELSE IF id \notin DOMAIN g.nodes THEN [g EXCEPT !.err = "KeyError"]
    ELSE [g EXCEPT !.nodes[id].ancestry = Append(@, p)]

\* the loop of add_edge over range(1, len(edge)-1); i is the source's index,
\* edge[i] is edge[i + 1] here and edge[:i] is SubSeq(edge, 1, i)
RECURSIVE add_edge_interior(_, _, _)
add_edge_interior(g, edge, i) ==
    IF i >= Len(edge) - 1 \/ g.err # "ok" THEN g
    ELSE add_edge_interior(
             AppendAncestry(g, edge[i + 1], Reverse(SubSeq(edge, 1, i))),
             edge, i + 1)

\* add_edge, were it to record the tail's entry only
add_edge_tail_only(g, edge) ==
    IF g.err # "ok" THEN g
    ELSE AppendAncestry([g EXCEPT !.edges = Append(@, edge)],
                        edge[Len(edge)],
                        Reverse(SubSeq(edge, 1, Len(edge) - 1)))

\* add_edge: append the edge, then the ancestry entries of the interior
\* positions, then the entry of the tail (edge[-1], edge[:-1][::-1])
add_edge(g, edge) ==
    IF g.err # "ok" THEN g
    ELSE LET g1 == [g EXCEPT !.edges = Append(@, edge)]
             g2 == add_edge_interior(g1, edge, 1)
         IN AppendAncestry(g2, edge[Len(edge)],
                           Reverse(SubSeq(edge, 1, Len(edge) - 1)))

\* the loop of remove_edge over edge[1:]: clear the whole ancestry of every
\* node named there that is still in the mapping
RECURSIVE ClearAncestries(_, _, _)
ClearAncestries(ns, edge, i) ==
    IF i > Len(edge) THEN ns
    ELSE ClearAncestries(
             IF edge[i] \in DOMAIN ns
             THEN [ns EXCEPT ![edge[i]].ancestry = <<>>] ELSE ns,
             edge, i + 1)

\* remove_edge, were its loop to run over edge instead of edge[1:]
remove_edge_head_too(g, edge) ==
    LET es == IF Contains(g.edges, edge) THEN ListRemove(g.edges, edge)
              ELSE g.edges
    IN [g EXCEPT !.edges = es, !.nodes = ClearAncestries(g.nodes, edge, 1)]

\* remove_edge, were it to leave the ancestries alone
remove_edge_keep_ancestry(g, edge) ==
    LET es == IF Contains(g.edges, edge) THEN ListRemove(g.edges, edge)
              ELSE g.edges
    IN [g EXCEPT !.edges = es]

\* remove_edge: remove one value-equal occurrence if there is one, then
\* clear the ancestries whether or not the edge was stored
remove_edge(g, edge) ==
    LET es == IF Contains(g.edges, edge) THEN ListRemove(g.edges, edge)
              ELSE g.edges
    IN [g EXCEPT !.edges = es, !.nodes = ClearAncestries(g.nodes, edge, 2)]

\* the second loop of remove_node: remove_edge on each collected edge
RECURSIVE RemoveEdges(_, _, _)
RemoveEdges(g, es, i) ==
    IF i > Len(es) THEN g
    ELSE RemoveEdges(remove_edge(g, es[i]), es, i + 1)

\* the edges remove_node collects: those naming the node at any position
EdgesNaming(g, id) == SelectSeq(g.edges, LAMBDA e : Contains(e, id))

\* remove_node, were it to collect only the edges leaving the node
remove_node_head_only(g, id) ==
    IF id \notin DOMAIN g.nodes THEN g
    ELSE LET ns1 == [n \in DOMAIN g.nodes \ {id} |-> g.nodes[n]]
             edges_to_remove == SelectSeq(g.edges, LAMBDA e : e[1] = id)
         IN RemoveEdges([g EXCEPT !.nodes = ns1], edges_to_remove, 1)

\* remove_node: delete the node, collect the edges naming it, remove them
remove_node(g, id) ==
    IF id \notin DOMAIN g.nodes THEN g
    ELSE LET ns1 == [n \in DOMAIN g.nodes \ {id} |-> g.nodes[n]]
             edges_to_remove == EdgesNaming(g, id)
         IN RemoveEdges([g EXCEPT !.nodes = ns1], edges_to_remove, 1)

(***************************************************************************)
(* DirectedHypergraph: traversal primitives.                               *)
(***************************************************************************)
\* get_roots: the identifiers, in the mapping's order, with empty ancestry
get_roots(g) == SelectSeq(NodeOrder(g), LAMBDA n : g.nodes[n].ancestry = <<>>)

\* get_children: edge[1] of every stored edge with edge[0] == node_id, in
\* the order of the edge list
RECURSIVE get_children_from(_, _, _)
get_children_from(g, id, i) ==
    IF i > Len(g.edges) THEN <<>>
    ELSE (IF g.edges[i][1] = id THEN <<g.edges[i][2]>> ELSE <<>>)
         \o get_children_from(g, id, i + 1)

get_children(g, id) == get_children_from(g, id, 1)

(***************************************************************************)
(* DirectedHypergraph: cycle detection.                                    *)
(***************************************************************************)
\* _check_for_cycles: the visited list is one object shared by the whole
\* walk from a root (appended to, never popped), so the result carries it
RECURSIVE _check_for_cycles(_, _, _)
RECURSIVE CheckChildren(_, _, _, _)

\* the loop of _check_for_cycles over get_children(node_id)
CheckChildren(g, children, i, visited) ==
    IF i > Len(children) THEN [found |-> FALSE, visited |-> visited]
    ELSE LET r == _check_for_cycles(g, children[i], visited)
         IN IF r.found THEN r
            ELSE CheckChildren(g, children, i + 1, r.visited)

_check_for_cycles(g, id, visited) ==
    IF Contains(visited, id) THEN [found |-> TRUE, visited |-> visited]
    ELSE CheckChildren(g, get_children(g, id), 1, Append(visited, id))

\* check_for_cycles, were it to end with return False
check_for_cycles_found_only(g) ==
    \E i \in 1..Len(get_roots(g)) :
        _check_for_cycles(g, get_roots(g)[i], <<>>).found

\* check_for_cycles: a walk from every root, each with a fresh visited
\* list; with no walk reporting a cycle, whether there is no root
check_for_cycles(g) ==
    \/ \E i \in 1..Len(get_roots(g)) :
           _check_for_cycles(g, get_roots(g)[i], <<>>).found
    \/ Len(get_roots(g)) = 0

(***************************************************************************)
(* DirectedHypergraph: lineage enumeration.                                *)
(***************************************************************************)
\* a result of get_ancestry: the lineages, or the exception raised
Lineages(paths) == [err |-> "ok", paths |-> paths]
Raised(e) == [err |-> e, paths |-> <<>>]

\* _get_ancestries recurses from a node to the last element of each of its
\* entries.  A chain of nested calls longer than the number of nodes
\* repeats a node and so never ends by itself: the interpreter ends it
\* with RecursionError.  depth counts the nested calls still allowed.
RECURSIVE _get_ancestries(_, _, _)

\* the loops of _get_ancestries, were they to recurse from path[0]
RECURSIVE AncestriesOverNearest(_, _, _, _)
AncestriesOverNearest(g, ancestry, j, depth) ==
    IF j > Len(ancestry) THEN Lineages(<<>>)
    ELSE LET path == ancestry[j]
             sub == _get_ancestries(g, path[1], depth - 1)
             rest == AncestriesOverNearest(g, ancestry, j + 1, depth)
         IN IF sub.err # "ok" THEN sub
            ELSE IF rest.err # "ok" THEN rest
            ELSE Lineages([k \in 1..Len(sub.paths) |-> path \o sub.paths[k]]
                          \o rest.paths)

\* the loops of _get_ancestries: for each entry (path) from the j-th on,
\* for each lineage of path[-1], the entry extended by that lineage
RECURSIVE AncestriesOver(_, _, _, _)
AncestriesOver(g, ancestry, j, depth) ==
    IF j > Len(ancestry) THEN Lineages(<<>>)
    ELSE LET path == ancestry[j]
             sub == _get_ancestries(g, path[Len(path)], depth - 1)
             rest == AncestriesOver(g, ancestry, j + 1, depth)
         IN IF sub.err # "ok" THEN sub
            ELSE IF rest.err # "ok" THEN rest
            ELSE Lineages([k \in 1..Len(sub.paths) |-> path \o sub.paths[k]]
                          \o rest.paths)

_get_ancestries(g, id, depth) ==
    IF id \notin DOMAIN g.nodes THEN Raised("KeyError")
    ELSE IF g.nodes[id].ancestry = <<>> THEN Lineages(<< <<>> >>)
    ELSE IF depth = 0 THEN Raised("RecursionError")
    ELSE AncestriesOver(g, g.nodes[id].ancestry, 1, depth)

\* get_ancestry: [[id]] for a root, otherwise id before each lineage
get_ancestry(g, id) ==
    IF Contains(get_roots(g), id) THEN Lineages(<< <<id>> >>)
    ELSE LET r == _get_ancestries(g, id, Cardinality(DOMAIN g.nodes))
         IN IF r.err # "ok" THEN r
            ELSE Lineages([k \in 1..Len(r.paths) |-> <<id>> \o r.paths[k]])

(***************************************************************************)
(* DirectedHypergraph: common_ancestor.                                    *)
(***************************************************************************)
\* set(s)
SetOf(s) == {s[i] : i \in 1..Len(s)}

\* the lineages the loops of common_ancestor visit: those of each queried
\* node in turn, from the i-th queried node on
RECURSIVE QueriedLineages(_, _, _)
QueriedLineages(g, ids, i) ==
    IF i > Len(ids) THEN Lineages(<<>>)
    ELSE LET r == get_ancestry(g, ids[i])
             rest == QueriedLineages(g, ids, i + 1)
         IN IF r.err # "ok" THEN r
            ELSE IF rest.err # "ok" THEN rest
            ELSE Lineages(r.paths \o rest.paths)

\* the fold of common_ancestor from the i-th lineage on: the identifiers
\* kept so far intersected with each lineage, set(acc) & set(ancestry)
RECURSIVE MostCommon(_, _, _)
MostCommon(lineages, i, acc) ==
    IF i > Len(lineages) THEN acc
    ELSE MostCommon(lineages, i + 1, acc \cap SetOf(lineages[i]))

\* most_common_ancestors, were the loop to join the lineages with | for &
RECURSIVE MostCommonUnion(_, _, _)
MostCommonUnion(lineages, i, acc) ==
    IF i > Len(lineages) THEN acc
    ELSE MostCommonUnion(lineages, i + 1, acc \cup SetOf(lineages[i]))

most_common_ancestors_union(lineages) ==
    MostCommonUnion(lineages, 2, SetOf(lineages[1]))

\* most_common_ancestors after the loops, as a set: the first lineage
\* intersected with every later one
most_common_ancestors(lineages) ==
    MostCommon(lineages, 2, SetOf(lineages[1]))

\* filter(lambda x: x not in node_ids, most_common_ancestors), as a set
Filtered(common, ids) == common \ SetOf(ids)

\* the sort key: len(self.nodes[x].ancestry)
SortKey(g, x) == Len(g.nodes[x].ancestry)

\* what a call of common_ancestor ends with: an identifier, None, or an
\* exception
Outcome(kind, id) == [kind |-> kind, id |-> id]

\* common_ancestor: the outcomes the call can have.  sorted() is stable, so
\* the last element after the filter is the kept identifier with the
\* largest key that comes last in the order sorted() was given.  With one
\* lineage in all that order is the lineage's; with more it is the
\* iteration order of a set of strings, which differs from run to run.
common_ancestor(g, ids) ==
    LET ls == QueriedLineages(g, ids, 1)
    IN IF ls.err # "ok" THEN {Outcome(ls.err, 0)}
       ELSE IF ls.paths = <<>> THEN {Outcome("TypeError", 0)}
       ELSE LET common == most_common_ancestors(ls.paths)
                kept == Filtered(common, ids)
                top == {x \in kept :
                           \A y \in kept : SortKey(g, y) <= SortKey(g, x)}
                first == ls.paths[1]
            IN IF \E x \in common : x \notin DOMAIN g.nodes
               THEN {Outcome("KeyError", 0)}
               ELSE IF common = {} THEN {Outcome("None", 0)}
               ELSE IF kept = {} THEN {Outcome("IndexError", 0)}
               ELSE IF Len(ls.paths) = 1
               THEN LET i == CHOOSE i \in 1..Len(first) :
                                 /\ first[i] \in top
                                 /\ \A j \in (i + 1)..Len(first) :
                                        first[j] \notin top
                    IN {Outcome("id", first[i])}
               ELSE {Outcome("id", x) : x \in top}

(***************************************************************************)
(* StringDirectedHypergraph: merge and split.                              *)
(***************************************************************************)
\* ''.join(parts)
RECURSIVE Join(_)
Join(parts) == IF parts = <<>> THEN <<>> ELSE Head(parts) \o Join(Tail(parts))

\* content[a:b] and content[a:] for offsets a, b >= 0
PySlice(s, a, b) ==
    LET hi == IF b < Len(s) THEN b ELSE Len(s)
    IN IF a >= hi THEN <<>> ELSE SubSeq(s, a + 1, hi)

PySliceFrom(s, a) == PySlice(s, a, Len(s))

\* list.sort() on a list of naturals
RECURSIVE SortInts(_)
SortInts(s) ==
    IF s = <<>> THEN <<>>
    ELSE LET k == CHOOSE i \in 1..Len(s) : \A j \in 1..Len(s) : s[i] <= s[j]
         IN <<s[k]>> \o SortInts(DropAt(s, k))

\* the loop of merge over node_ids: remove_node on each
RECURSIVE RemoveNodes(_, _, _)
RemoveNodes(g, ids, i) ==
    IF i > Len(ids) THEN g
    ELSE RemoveNodes(remove_node(g, ids[i]), ids, i + 1)

\* merge, were it to join the contents in the mapping's order
merge_in_mapping_order(g, ids) ==
    IF g.err # "ok" THEN g
    ELSE IF \E i \in 1..Len(ids) : ids[i] \notin DOMAIN g.nodes
    THEN [g EXCEPT !.err = "KeyError"]
    ELSE LET ordered == SortInts(ids)
             merged_content ==
                 Join([i \in 1..Len(ids) |-> g.nodes[ordered[i]].content])
         IN RemoveNodes(add_node(g, Node(merged_content, EmptyMeta)), ids, 1)

\* merge: one new node holding the concatenated contents (returned:
\* g.next), then every input node removed; a missing id raises KeyError
\* before anything is changed
merge(g, ids) ==
    IF g.err # "ok" THEN g
    ELSE IF \E i \in 1..Len(ids) : ids[i] \notin DOMAIN g.nodes
    THEN [g EXCEPT !.err = "KeyError"]
    ELSE LET merged_content ==
                 Join([i \in 1..Len(ids) |-> g.nodes[ids[i]].content])
         IN RemoveNodes(add_node(g, Node(merged_content, EmptyMeta)), ids, 1)

\* the first loop of split and the piece after it: one new node per sorted
\* boundary and one for the rest; the pieces get the identifiers
\* g.next, g.next + 1, ... in content order
RECURSIVE SplitPieces(_, _, _, _, _)
SplitPieces(g, content, boundary, i, start_index) ==
    IF i > Len(boundary)
    THEN add_node(g, Node(PySliceFrom(content, start_index), EmptyMeta))
    ELSE SplitPieces(
             add_node(g, Node(PySlice(content, start_index, boundary[i]),
                              EmptyMeta)),
             content, boundary, i + 1, boundary[i])

\* the loop over the split node's ancestry list (the list object itself,
\* so entries add_edge appends to it during the loop are visited too)
RECURSIVE SplitLineage(_, _, _, _)
SplitLineage(g, id, first, j) ==
    IF g.err # "ok" \/ j > Len(g.nodes[id].ancestry) THEN g
    ELSE SplitLineage(
             add_edge(g, Reverse(g.nodes[id].ancestry[j]) \o <<first>>),
             id, first, j + 1)

\* the loop linking the pieces, were it to link the first piece to each
\* later one
RECURSIVE SplitChainFromFirst(_, _, _)
SplitChainFromFirst(g, split_nodes, i) ==
    IF i >= Len(split_nodes) THEN g
    ELSE SplitChainFromFirst(
             add_edge(g, <<split_nodes[1], split_nodes[i + 1]>>),
             split_nodes, i + 1)

\* the loop linking each consecutive pair of pieces
RECURSIVE SplitChain(_, _, _)
SplitChain(g, split_nodes, i) ==
    IF i >= Len(split_nodes) THEN g
    ELSE SplitChain(add_edge(g, <<split_nodes[i], split_nodes[i + 1]>>),
                    split_nodes, i + 1)

\* the loop re-parenting the children under the last piece
RECURSIVE SplitChildren(_, _, _, _)
SplitChildren(g, lastPiece, children, i) ==
    IF i > Len(children) THEN g
    ELSE SplitChildren(add_edge(g, <<lastPiece, children[i]>>),
                       lastPiece, children, i + 1)

\* the identifiers split returns for a graph whose next fresh identifier
\* was nx when it was called with k boundaries
SplitNodes(nx, k) == [i \in 1..(k + 1) |-> nx + i - 1]

\* split: a missing id raises KeyError before anything is changed
split(g, id, boundary) ==
    IF g.err # "ok" THEN g
    ELSE IF id \notin DOMAIN g.nodes THEN [g EXCEPT !.err = "KeyError"]
    ELSE LET sorted == SortInts(boundary)
             split_nodes == SplitNodes(g.next, Len(boundary))
             g1 == SplitPieces(g, g.nodes[id].content, sorted, 1, 0)
             g2 == SplitLineage(g1, id, split_nodes[1], 1)
             g3 == SplitChain(g2, split_nodes, 1)
             g4 == SplitChildren(g3, split_nodes[Len(split_nodes)],
                                 get_children(g3, id), 1)
         IN IF g4.err # "ok" THEN g4 ELSE remove_node(g4, id)

(***************************************************************************)
(* StringDirectedHypergraph: to_dict and from_dict.                        *)
(***************************************************************************)
\* a mapping (dict) as the sequence of its (key, value) items in insertion
\* order
Items(ns) ==
    [i \in 1..Cardinality(DOMAIN ns) |->
        <<SortedSeq(DOMAIN ns)[i], ns[SortedSeq(DOMAIN ns)[i]]>>]

\* to_dict: the edge list under 'edges' and, under 'nodes', one item per
\* node in the mapping's order: its identifier and the mapping of
\* 'content', 'metadata' and 'ancestry' to the node's fields
to_dict(g) ==
    [nodes |->
         [i \in 1..Len(Items(g.nodes)) |->
             <<Items(g.nodes)[i][1],
               [content |-> Items(g.nodes)[i][2].content,
                metadata |-> Items(g.nodes)[i][2].metadata,
                ancestry |-> Items(g.nodes)[i][2].ancestry]>>],
     edges |-> g.edges]

\* the loop of from_dict over state['nodes'].items(), from the i-th item
\* on: self.nodes[node_id] = Node(content, metadata, ancestry)
RECURSIVE LoadNodes(_, _, _)
LoadNodes(items, i, ns) ==
    IF i > Len(items) THEN ns
    ELSE LET node_id == items[i][1]
             node_data == items[i][2]
             node == [content |-> node_data.content,
                      metadata |-> node_data.metadata,
                      ancestry |-> node_data.ancestry]
         IN LoadNodes(items, i + 1,
                      [n \in DOMAIN ns \cup {node_id} |->
                          IF n = node_id THEN node ELSE ns[n]])

\* the loop of from_dict, were it to build Node(content, metadata)
RECURSIVE LoadNodesDefaultAncestry(_, _, _)
LoadNodesDefaultAncestry(items, i, ns) ==
    IF i > Len(items) THEN ns
    ELSE LET node_id == items[i][1]
             node_data == items[i][2]
             node == Node(node_data.content, node_data.metadata)
         IN LoadNodesDefaultAncestry(items, i + 1,
                      [n \in DOMAIN ns \cup {node_id} |->
                          IF n = node_id THEN node ELSE ns[n]])

from_dict_default_ancestry(g, state) ==
    [g EXCEPT !.nodes = LoadNodesDefaultAncestry(state.nodes, 1, <<>>),
              !.edges = state.edges]

\* from_dict: the mapping is emptied and refilled from the items, the edge
\* list is the one of the state
from_dict(g, state) ==
    [g EXCEPT !.nodes = LoadNodes(state.nodes, 1, <<>>),
              !.edges = state.edges]

(***************************************************************************)
(* StringDirectedHypergraph: content_lineage.                              *)
(***************************************************************************)
\* s.endswith(t)
EndsWith(s, t) ==
    /\ Len(t) <= Len(s)
    /\ SubSeq(s, Len(s) - Len(t) + 1, Len(s)) = t

\* t in s, for strings: t is a contiguous run of s
IsSubstring(t, s) ==
    \E k \in 0..(Len(s) - Len(t)) : SubSeq(s, k + 1, k + Len(t)) = t

\* a result of content_lineage: the lineage, or the exception raised
Found(path) == [err |-> "ok", path |-> path]

\* the inner loop of content_lineage over the lineages of a node, from the
\* k-th on: the first one, reversed, whose joined contents are a run of the
\* target; get_node_contents raises KeyError for an identifier that is not
\* in the mapping.  The empty path stands for "none matched".
RECURSIVE MatchingLineage(_, _, _, _)
MatchingLineage(g, content, lineages, k) ==
    IF k > Len(lineages) THEN Found(<<>>)
    ELSE LET path == Reverse(lineages[k])
         IN IF \E i \in 1..Len(path) : path[i] \notin DOMAIN g.nodes
            THEN [err |-> "KeyError", path |-> <<>>]
            ELSE IF IsSubstring(
                        Join([i \in 1..Len(path) |-> g.nodes[path[i]].content]),
                        content)
            THEN Found(path)
            ELSE MatchingLineage(g, content, lineages, k + 1)

\* the outer loop of content_lineage over the mapping, from the i-th
\* node on
RECURSIVE ContentLineageFrom(_, _, _, _)
ContentLineageFrom(g, content, order, i) ==
    IF i > Len(order) THEN Found(<<>>)
    ELSE IF ~EndsWith(content, g.nodes[order[i]].content)
    THEN ContentLineageFrom(g, content, order, i + 1)
    ELSE LET ancestries == get_ancestry(g, order[i])
             m == MatchingLineage(g, content, ancestries.paths, 1)
         IN IF ancestries.err # "ok"
            THEN [err |-> ancestries.err, path |-> <<>>]
            ELSE IF m.err # "ok" \/ m.path # <<>> THEN m
            ELSE ContentLineageFrom(g, content, order, i + 1)

\* content_lineage: the first node, in the mapping's order, whose content
\* the target ends with and that has a matching lineage decides
content_lineage(g, content) == ContentLineageFrom(g, content, NodeOrder(g), 1)

(***************************************************************************)
(* DirectedHypergraph: refactor, with StringDirectedHypergraph's merge.    *)
(***************************************************************************)
\* the first loop of _refactor over the children read at entry: merge the
\* node with every child whose content equals the content the node had at
\* entry (node is the object read at entry, so its content stays readable
\* after the node left the mapping); self.nodes[child] raises KeyError for
\* a child no longer in the mapping
RECURSIVE RefactorEqual(_, _, _, _, _)
RefactorEqual(g, id, content, children, i) ==
    IF g.err # "ok" \/ i > Len(children) THEN g
    ELSE IF children[i] \notin DOMAIN g.nodes
    THEN [g EXCEPT !.err = "KeyError"]
    ELSE RefactorEqual(
             IF g.nodes[children[i]].content = content
             THEN merge(g, <<id, children[i]>>) ELSE g,
             id, content, children, i + 1)

\* _refactor recurses along the children relation with no record of the
\* nodes it is in.  Every merge removes a node the walk started with and
\* between two merges a chain of nested calls longer than the number of
\* nodes repeats a node and never ends by itself: the interpreter ends it
\* with RecursionError.  depth counts the nested calls still allowed.
RECURSIVE _refactor(_, _, _)

\* the last loop of _refactor: recurse into each child read after the merges
RECURSIVE RefactorChildren(_, _, _, _)
RefactorChildren(g, children, i, depth) ==
    IF g.err # "ok" \/ i > Len(children) THEN g
    ELSE RefactorChildren(_refactor(g, children[i], depth - 1),
                          children, i + 1, depth)

_refactor(g, id, depth) ==
    IF g.err # "ok" THEN g
    ELSE IF id \notin DOMAIN g.nodes THEN [g EXCEPT !.err = "KeyError"]
    ELSE IF depth = 0 THEN [g EXCEPT !.err = "RecursionError"]
    ELSE LET children == get_children(g, id)
             g1 == RefactorEqual(g, id, g.nodes[id].content, children, 1)
             g2 == IF g1.err = "ok" /\ Len(children) = 1
                   THEN merge(g1, <<id, children[1]>>) ELSE g1
         IN IF g2.err # "ok" THEN g2
            ELSE RefactorChildren(g2, get_children(g2, id), 1, depth)

\* the loop of refactor over the roots read at entry
RECURSIVE RefactorRoots(_, _, _, _)
RefactorRoots(g, roots, i, depth) ==
    IF g.err # "ok" \/ i > Len(roots) THEN g
    ELSE RefactorRoots(_refactor(g, roots[i], depth), roots, i + 1, depth)

\* refactor: one pass from every root
refactor(g) ==
    LET n == Cardinality(DOMAIN g.nodes)
    IN RefactorRoots(g, get_roots(g), 1, n * (n + 1) + 1)

(***************************************************************************)
(* The program state and its operations.                                   *)
(***************************************************************************)
G == Graph(nodes, edges, nextId)

\* the state after the call returned g, recording the call in last
Becomes(g, call) ==
    /\ nodes' = g.nodes
    /\ edges' = g.edges
    /\ nextId' = g.next
    /\ last' = call

\* the hyperedges a caller can name over the live identifiers
EdgesOver(ids) == SeqsOf(ids, EdgeLens)

NoCall == [op |-> "none"]

\* what last records of a call: the call and its arguments under the
\* specifications that observe single calls (detail), nothing otherwise
Call(args, detail) == IF detail THEN args ELSE NoCall

\* DirectedHypergraph(): no nodes, no edges
Init ==
    /\ nodes = <<>>
    /\ edges = <<>>
    /\ nextId = 1
    /\ last = NoCall

\* the calls the model makes keep the mapping within maxLive nodes
Fits(g, maxLive) == Cardinality(DOMAIN g.nodes) <= maxLive

AddNode(inputs, maxIds, maxLive) ==
    /\ nextId <= maxIds
    /\ Cardinality(DOMAIN nodes) < maxLive
    /\ \E n \in inputs :
           Becomes(add_node(G, Node(n.content, n.metadata)),
                   NoCall)

\* the number of identifiers in the hyperedges es
RECURSIVE Cells(_)
Cells(es) == IF es = <<>> THEN 0 ELSE Len(Head(es)) + Cells(Tail(es))

AddEdge(maxCells, detail) ==
    \E e \in EdgesOver(DOMAIN nodes) :
        /\ Cells(edges) + Len(e) <= maxCells
        /\ Becomes(add_edge(G, e),
                   Call([op |-> "add_edge", edge |-> e], detail))

RemoveEdge(detail) ==
    \E e \in EdgesOver(DOMAIN nodes) :
        Becomes(remove_edge(G, e),
                Call([op |-> "remove_edge", edge |-> e,
                      stored |-> Contains(edges, e)], detail))

RemoveNode ==
    \E id \in DOMAIN nodes :
        Becomes(remove_node(G, id),
                [op |-> "remove_node", id |-> id,
                 incident |-> Len(EdgesNaming(G, id))])

\* merge on one or two existing identifiers (a repeated one included)
Merge(maxIds, maxLive, detail) ==
    /\ nextId <= maxIds
    /\ \E ids \in SeqsOf(DOMAIN nodes, {1, 2}) :
           /\ Fits(merge(G, ids), maxLive)
           /\ Becomes(merge(G, ids),
                      Call([op |-> "merge", ids |-> ids], detail))

\* the boundary arguments of split for a content: one offset (an int is
\* wrapped into a list) or a list of none or two offsets, in any order
Boundaries(content) == SeqsOf(0..Len(content), {0, 1, 2})

Split(maxIds, maxLive, detail) ==
    \E id \in DOMAIN nodes :
        \E b \in Boundaries(nodes[id].content) :
            /\ nextId + Len(b) <= maxIds
            /\ Fits(split(G, id, b), maxLive)
            /\ Becomes(split(G, id, b),
                       Call([op |-> "split", id |-> id, boundary |-> b],
                            detail))

\* g2 = StringDirectedHypergraph(); g2.from_dict(g.to_dict()): the program
\* goes on with the loaded graph (identifiers stay fresh across graphs)
FromDict ==
    \E state \in {to_dict(G)} :
        Becomes(from_dict(Graph(<<>>, <<>>, nextId), state),
                [op |-> "from_dict"])

Next ==
    \/ AddNode(NodeInputs, MaxIds, MaxLive)
    \/ AddEdge(MaxCells, FALSE)
    \/ RemoveEdge(FALSE)
    \/ RemoveNode
    \/ Merge(MaxIds, MaxLive, FALSE)
    \/ Split(MaxIds, MaxLive, FALSE)

Spec == Init /\ [][Next]_vars

NextEdge ==
    \/ AddNode(NodeInputs, EdgeMaxIds, EdgeMaxIds)
    \/ AddEdge(EdgeMaxCells, TRUE)
    \/ RemoveEdge(TRUE)

SpecEdge == Init /\ [][NextEdge]_vars

\* identifiers add_node never returned
UnknownIds == {0}

\* add_edge(e) where some identifier of e is not in the mapping; the state
\* is the graph as the call left it, with the exception it raised, if any
AddEdgeUnknown(maxCells) ==
    \E e \in EdgesOver(DOMAIN nodes \cup UnknownIds) :
        /\ \E i \in 1..Len(e) : e[i] \notin DOMAIN nodes
        /\ Cells(edges) + Len(e) <= maxCells
        /\ \E g \in {add_edge(G, e)} :
               Becomes(g, [op |-> "add_edge_unknown", edge |-> e,
                           err |-> g.err])

\* single calls of add_edge, with identifiers that are not in the mapping
NextUnknown ==
    \/ AddNode(NodeInputs, EdgeMaxIds, EdgeMaxIds)
    \/ AddEdge(EdgeMaxCells, TRUE)
    \/ AddEdgeUnknown(EdgeMaxCells)

SpecUnknown == Init /\ [][NextUnknown]_vars

\* the mutation operations, with the graph exported and loaded again
NextSave ==
    \/ AddNode(NodeInputs, SaveMaxIds, SaveMaxLive)
    \/ AddEdge(SaveMaxCells, FALSE)
    \/ RemoveEdge(FALSE)
    \/ RemoveNode
    \/ Merge(SaveMaxIds, SaveMaxLive, FALSE)
    \/ Split(SaveMaxIds, SaveMaxLive, FALSE)
    \/ FromDict

SpecSave == Init /\ [][NextSave]_vars

\* graphs built by add_node and add_edge alone
NextBuild ==
    \/ AddNode(NodeInputs, BuildMaxIds, BuildMaxIds)
    \/ AddEdge(BuildMaxCells, FALSE)

SpecBuild == Init /\ [][NextBuild]_vars

\* the chain of parents above n in a forest of two-identifier hyperedges,
\* nearest first
RECURSIVE UpChain(_, _)
UpChain(es, n) ==
    IF \E k \in 1..Len(es) : es[k][2] = n
    THEN LET k == CHOOSE k \in 1..Len(es) : es[k][2] = n
         IN <<es[k][1]>> \o UpChain(es, es[k][1])
    ELSE <<>>

\* add_edge([p, c]) where c has no parent yet and is not above p: the
\* hyperedges stay a forest
AddTreeEdge ==
    \E p \in DOMAIN nodes :
        \E c \in DOMAIN nodes \ ({p} \cup SetOf(UpChain(edges, p))) :
            /\ UpChain(edges, c) = <<>>
            /\ Becomes(add_edge(G, <<p, c>>), NoCall)

\* trees built from two-identifier hyperedges
NextTree ==
    \/ AddNode(NodeInputs, TreeMaxIds, TreeMaxIds)
    \/ AddTreeEdge

SpecTree == Init /\ [][NextTree]_vars

\* graphs built by add_node and add_edge and rewritten by merge and split,
\* observing the single calls of merge and split
NextRewrite ==
    \/ AddNode(NodeInputs, RewriteMaxIds, RewriteMaxLive)
    \/ AddEdge(RewriteMaxCells, FALSE)
    \/ Merge(RewriteMaxIds, RewriteMaxLive, TRUE)
    \/ Split(RewriteMaxIds, RewriteMaxLive, TRUE)

SpecRewrite == Init /\ [][NextRewrite]_vars

\* graphs built by add_node and add_edge whose nodes are split, observing
\* the single calls of split
NextLineage ==
    \/ AddNode(NodeInputs, LineageMaxIds, LineageMaxLive)
    \/ AddEdge(LineageMaxCells, FALSE)
    \/ Split(LineageMaxIds, LineageMaxLive, TRUE)

SpecLineage == Init /\ [][NextLineage]_vars

\* refactor(): the state is the graph as the call left it, with the
\* exception it raised, if any
Refactor ==
    \E g \in {refactor(G)} :
        Becomes(g, [op |-> "refactor", err |-> g.err])

\* add_edge([p, c]) on two live identifiers, while the graph is being built
AddPair(maxCells) ==
    /\ last.op = "none"
    /\ Cells(edges) + 2 <= maxCells
    /\ \E p \in DOMAIN nodes :
           \E c \in DOMAIN nodes :
               Becomes(add_edge(G, <<p, c>>), NoCall)

\* graphs built by add_node and add_edge of two-identifier hyperedges, with
\* refactor() called on them
NextRefactor ==
    \/ AddNode(RefactorInputs, RefactorMaxIds, RefactorMaxIds)
    \/ AddPair(RefactorMaxCells)
    \/ Refactor

SpecRefactor == Init /\ [][NextRefactor]_vars

(***************************************************************************)
(* The hyperedge set and the ancestry caches (Spec).                       *)
(***************************************************************************)
\* the ancestry entry a hyperedge e gives the node at its position i (the
\* source's e[i - 1]): [e[i-2], ..., e[0]] in the source's indices
EntryOf(e, i) == Reverse(SubSeq(e, 1, i - 1))

\* C1: for every stored hyperedge e and every non-head position i of e, the
\* node at e[i] carries the ancestry entry reverse(e[0..i]).
AncestryConsistent ==
    \A k \in 1..Len(edges) :
        \A i \in 2..Len(edges[k]) :
            /\ edges[k][i] \in DOMAIN nodes
            /\ Contains(nodes[edges[k][i]].ancestry, EntryOf(edges[k], i))

\* C2: every identifier at any position of any stored hyperedge is a key of
\* the node mapping, and after remove_node(id) no stored hyperedge names id.
IdentifiersValid ==
    /\ \A k \in 1..Len(edges) :
           \A i \in 1..Len(edges[k]) : edges[k][i] \in DOMAIN nodes
    /\ last.op = "remove_node" =>
           /\ last.id \notin DOMAIN nodes
           /\ \A k \in 1..Len(edges) : ~Contains(edges[k], last.id)

\* C2 happens: remove_node removed a node that stored hyperedges named at a
\* non-head position, and other hyperedges are still stored
RemovedNamedNode ==
    /\ last.op = "remove_node"
    /\ last.incident >= 1
    /\ edges # <<>>

\* C22: every cached ancestry entry is backed by a stored hyperedge: for
\* every node n and every entry p of n there is a stored hyperedge e and a
\* non-head position i with e[i] = n and p = reverse(e[0..i]); hence every
\* identifier in an ancestry entry is a key of the node mapping.
EntriesBacked ==
    \A n \in DOMAIN nodes :
        \A j \in 1..Len(nodes[n].ancestry) :
            LET p == nodes[n].ancestry[j]
            IN /\ \E k \in 1..Len(edges) :
                      \E i \in 2..Len(edges[k]) :
                          edges[k][i] = n /\ p = EntryOf(edges[k], i)
               /\ \A i \in 1..Len(p) : p[i] \in DOMAIN nodes

\* C22 happens: remove_node removed a node and the hyperedges naming it,
\* and a node that is left still has an entry
EntryLeftAfterRemoval ==
    /\ last.op = "remove_node"
    /\ last.incident >= 1
    /\ \E n \in DOMAIN nodes : nodes[n].ancestry # <<>>

(***************************************************************************)
(* Export and import (SpecSave).                                           *)
(***************************************************************************)
\* C18: loading to_dict(g) with from_dict into a fresh graph yields the
\* same identifier-to-node mapping (content, metadata, ancestry entries in
\* order) and the same hyperedge sequence in the same order.
RoundTrip ==
    [][last'.op = "from_dict" =>
          /\ DOMAIN nodes' = DOMAIN nodes
          /\ \A n \in DOMAIN nodes :
                 /\ nodes'[n].content = nodes[n].content
                 /\ nodes'[n].metadata = nodes[n].metadata
                 /\ nodes'[n].ancestry = nodes[n].ancestry
          /\ edges' = edges]_vars

\* C18 happens: a graph was loaded that holds a hyperedge of three
\* identifiers, a node with an ancestry entry of two identifiers, and nodes
\* with and without metadata
LoadedGraph ==
    /\ last.op = "from_dict"
    /\ \E k \in 1..Len(edges) : Len(edges[k]) = 3
    /\ \E n \in DOMAIN nodes :
           \E j \in 1..Len(nodes[n].ancestry) : Len(nodes[n].ancestry[j]) = 2
    /\ \E n \in DOMAIN nodes : nodes[n].metadata = {}
    /\ \E n \in DOMAIN nodes : nodes[n].metadata # {}

(***************************************************************************)
(* Single calls of add_edge and remove_edge (SpecEdge, SpecUnknown).       *)
(***************************************************************************)
\* the entries hyperedge e gives node n, in the order of e's positions
\* from position i on
RECURSIVE EntriesFrom(_, _, _)
EntriesFrom(e, n, i) ==
    IF i > Len(e) THEN <<>>
    ELSE (IF e[i] = n THEN <<EntryOf(e, i)>> ELSE <<>>)
         \o EntriesFrom(e, n, i + 1)

\* n is at a non-head position of e
NonHead(e, n) == \E i \in 2..Len(e) : e[i] = n

\* the call left the keys, contents and metadata of the mapping alone
SameNodesButAncestry ==
    /\ DOMAIN nodes' = DOMAIN nodes
    /\ \A n \in DOMAIN nodes :
           /\ nodes'[n].content = nodes[n].content
           /\ nodes'[n].metadata = nodes[n].metadata

\* C3: add_edge(e) appends e to the edge sequence and, for every non-head
\* position i of e, appends the entry reverse(e[0..i]) at the end of the
\* ancestry of e[i]; every other ancestry and all contents are unchanged.
AddEdgeEffect ==
    [][last'.op = "add_edge" =>
          /\ edges' = Append(edges, last'.edge)
          /\ SameNodesButAncestry
          /\ \A n \in DOMAIN nodes :
                 nodes'[n].ancestry =
                     nodes[n].ancestry \o EntriesFrom(last'.edge, n, 2)]_vars

\* C3 happens: a hyperedge of three identifiers was added whose interior
\* node, another node than its tail, had an entry before
AddedLongEdge ==
    /\ last.op = "add_edge"
    /\ Len(last.edge) = 3
    /\ last.edge[2] # last.edge[3]
    /\ Len(nodes[last.edge[2]].ancestry) >= 2

\* C4: remove_edge(e) on a stored e removes one occurrence of e, keeping the
\* order of the rest, and leaves every node at a non-head position of e with
\* an empty ancestry; every other ancestry is unchanged.
RemoveStoredEdgeEffect ==
    [][(last'.op = "remove_edge" /\ last'.stored) =>
          /\ \E k \in 1..Len(edges) :
                 edges[k] = last'.edge /\ edges' = DropAt(edges, k)
          /\ SameNodesButAncestry
          /\ \A n \in DOMAIN nodes :
                 nodes'[n].ancestry =
                     IF NonHead(last'.edge, n) THEN <<>>
                     ELSE nodes[n].ancestry]_vars

\* C4 happens: a stored hyperedge was removed, and a node at a non-head
\* position of it is left with no entry although another hyperedge that is
\* still stored names it at a non-head position
RemovedEdgeOverCleared ==
    /\ last.op = "remove_edge"
    /\ last.stored
    /\ \E n \in DOMAIN nodes :
           /\ NonHead(last.edge, n)
           /\ nodes[n].ancestry = <<>>
           /\ \E k \in 1..Len(edges) :
                  edges[k] # last.edge /\ NonHead(edges[k], n)

\* C5: remove_edge(e) with no value-equal hyperedge stored changes neither
\* the edge sequence nor any node.
RemoveAbsentEdgeNoOp ==
    [][(last'.op = "remove_edge" /\ ~last'.stored) =>
          (edges' = edges /\ nodes' = nodes)]_vars

\* C19: add_edge(e) where some identifier of e is absent from the node
\* mapping fails with a node-not-found error and leaves the edge sequence
\* and every node's ancestry as they were.
AddEdgeUnknownFailsOutright ==
    [][last'.op = "add_edge_unknown" =>
          /\ last'.err = "KeyError"
          /\ edges' = edges
          /\ DOMAIN nodes' = DOMAIN nodes
          /\ \A n \in DOMAIN nodes :
                 nodes'[n].ancestry = nodes[n].ancestry]_vars

(***************************************************************************)
(* Queries on graphs built by add_node and add_edge (SpecBuild).           *)
(***************************************************************************)
\* m stands before n in some stored hyperedge
Before(m, n) ==
    \E k \in 1..Len(edges) :
        \E i \in 1..Len(edges[k]) :
            \E j \in (i + 1)..Len(edges[k]) :
                edges[k][i] = m /\ edges[k][j] = n

\* the materialized children relation: some stored hyperedge has a at
\* position 0 and b at position 1
ChildOf(a, b) ==
    \E k \in 1..Len(edges) : edges[k][1] = a /\ edges[k][2] = b

\* the nodes reached from the set S in at most k steps of R
RECURSIVE ReachedIn(_, _, _)
ReachedIn(R(_, _), S, k) ==
    IF k = 0 THEN S
    ELSE ReachedIn(R, S \cup {n \in DOMAIN nodes : \E m \in S : R(m, n)},
                   k - 1)

\* no node reaches itself by one or more steps of R
AcyclicRel(R(_, _)) ==
    \A n \in DOMAIN nodes :
        n \notin ReachedIn(R, {x \in DOMAIN nodes : R(n, x)},
                           Cardinality(DOMAIN nodes))

\* n has no ancestry entry
IsRoot(n) == nodes[n].ancestry = <<>>

\* the lineages of id obtained by chaining each entry p of id, from the
\* j-th on, with each lineage of p's last element (whose first element,
\* p's last, is not repeated)
RECURSIVE Chained(_, _)
Chained(id, j) ==
    IF j > Len(nodes[id].ancestry) THEN <<>>
    ELSE LET p == nodes[id].ancestry[j]
             ls == get_ancestry(G, p[Len(p)]).paths
         IN [k \in 1..Len(ls) |-> <<id>> \o p \o Tail(ls[k])]
            \o Chained(id, j + 1)

\* the paths from id back along stored two-identifier hyperedges to a node
\* that no hyperedge enters
EdgePathsToRoot(id) ==
    {s \in SeqsOf(DOMAIN nodes, 1..Cardinality(DOMAIN nodes)) :
        /\ s[1] = id
        /\ \A k \in 1..(Len(s) - 1) : Contains(edges, <<s[k + 1], s[k]>>)
        /\ ~\E m \in DOMAIN nodes : Before(m, s[Len(s)])}

\* C6: on an acyclic graph get_ancestry(id) is [[id]] for a root; otherwise
\* every path starts with id and ends at a root, the paths are the chainings
\* of each entry p of id with each lineage of p's last element, and with
\* two-identifier hyperedges only they are the edge paths from id to a root.
LineagesEnumerated ==
    AcyclicRel(Before) =>
        \A id \in DOMAIN nodes :
            LET r == get_ancestry(G, id)
            IN /\ r.err = "ok"
               /\ IsRoot(id) => r.paths = << <<id>> >>
               /\ ~IsRoot(id) =>
                      /\ \A k \in 1..Len(r.paths) :
                             /\ r.paths[k][1] = id
                             /\ IsRoot(r.paths[k][Len(r.paths[k])])
                      /\ r.paths = Chained(id, 1)
                      /\ (\A k \in 1..Len(edges) : Len(edges[k]) = 2) =>
                             SetOf(r.paths) = EdgePathsToRoot(id)

\* C6 happens: an acyclic graph with a hyperedge of three identifiers and a
\* merge point, a node with two lineages, one of them four nodes long
LineagesAtMergePoint ==
    /\ AcyclicRel(Before)
    /\ \E k \in 1..Len(edges) : Len(edges[k]) = 3
    /\ \E id \in DOMAIN nodes :
           LET r == get_ancestry(G, id)
           IN /\ Len(r.paths) >= 2
              /\ \E k \in 1..Len(r.paths) : Len(r.paths[k]) >= 3

\* C7: with at least one root and an acyclic children relation,
\* check_for_cycles() returns false.
NoFalseCycle ==
    ((\E n \in DOMAIN nodes : IsRoot(n)) /\ AcyclicRel(ChildOf)) =>
        ~check_for_cycles(G)

\* C8: with no root, check_for_cycles() returns true.
NoRootIsCyclic ==
    (\A n \in DOMAIN nodes : ~IsRoot(n)) => check_for_cycles(G)

\* C8 happens: three nodes on a cycle of two-identifier hyperedges, none a
\* root
ThreeCycleNoRoot ==
    /\ \A n \in DOMAIN nodes : ~IsRoot(n)
    /\ \E a \in DOMAIN nodes :
           \E b \in DOMAIN nodes \ {a} :
               \E c \in DOMAIN nodes \ {a, b} :
                   /\ Contains(edges, <<a, b>>)
                   /\ Contains(edges, <<b, c>>)
                   /\ Contains(edges, <<c, a>>)

\* the queries: one or two live identifiers
Queries == SeqsOf(DOMAIN nodes, {1, 2})

\* the identifiers on the lineages of node n
OnLineagesOf(n) ==
    LET ls == get_ancestry(G, n).paths
    IN UNION {SetOf(ls[k]) : k \in 1..Len(ls)}

\* the candidates as the union of each queried node's lineages, intersected
\* across the queried nodes, less the queried identifiers
UnionPerNode(q) ==
    {x \in DOMAIN nodes : \A i \in 1..Len(q) : x \in OnLineagesOf(q[i])}
        \ SetOf(q)

\* the candidates as the identifiers on every lineage of every queried
\* node, less the queried identifiers
CommonToAllLineages(q) ==
    {x \in DOMAIN nodes :
        \A i \in 1..Len(q) :
            LET ls == get_ancestry(G, q[i]).paths
            IN \A k \in 1..Len(ls) : x \in SetOf(ls[k])}
        \ SetOf(q)

\* the set common_ancestor chooses from: most_common_ancestors after the
\* filter
CodeCandidates(q) ==
    Filtered(most_common_ancestors(QueriedLineages(G, q, 1).paths), q)

\* the lineages of the queried nodes are enumerated without an exception
Enumerable(q) == QueriedLineages(G, q, 1).err = "ok"

\* C9 as stated: the set common_ancestor chooses from is the intersection,
\* across the queried nodes, of the union of each node's lineages, less the
\* queried identifiers.
CandidatesUnionPerNode ==
    \A q \in Queries :
        Enumerable(q) =>
            /\ CodeCandidates(q) = UnionPerNode(q)
            /\ \A o \in common_ancestor(G, q) :
                   o.kind = "id" => o.id \in UnionPerNode(q)

\* C9 amended: the set common_ancestor chooses from is the set of the
\* identifiers on every lineage of every queried node, less the queried
\* identifiers.
CandidatesCommonToAllLineages ==
    \A q \in Queries :
        Enumerable(q) =>
            /\ CodeCandidates(q) = CommonToAllLineages(q)
            /\ \A o \in common_ancestor(G, q) :
                   o.kind = "id" => o.id \in CommonToAllLineages(q)

\* C9 happens: a queried merge-point node has an ancestor on only one of
\* its lineages, and common_ancestor returns an identifier
AncestorOnOneLineage ==
    \E q \in Queries :
        /\ Enumerable(q)
        /\ UnionPerNode(q) # CommonToAllLineages(q)
        /\ \E o \in common_ancestor(G, q) : o.kind = "id"

\* C11: whenever no identifier other than the queried ones is on every
\* lineage of every queried node, common_ancestor returns None and does
\* not fail.
NoCommonAncestorIsNone ==
    \A q \in Queries :
        (Enumerable(q) /\ CommonToAllLineages(q) = {}) =>
            common_ancestor(G, q) = {Outcome("None", 0)}


(***************************************************************************)
(* Single calls of merge and split (SpecRewrite, SpecLineage).             *)
(***************************************************************************)
\* the graph after the step
GNext == Graph(nodes', edges', nextId')

\* C12: merge(ids) on existing ids creates exactly one new node, holding
\* the inputs' contents concatenated in the given order, with empty
\* metadata and empty ancestry and in no stored hyperedge; no input id is
\* in the mapping or in a stored hyperedge afterwards.
MergeEffect ==
    [][last'.op = "merge" =>
          LET ids == last'.ids
              merged == nextId
          IN /\ DOMAIN nodes' = (DOMAIN nodes \ SetOf(ids)) \cup {merged}
             /\ merged \notin DOMAIN nodes
             /\ nodes'[merged].content =
                    Join([i \in 1..Len(ids) |-> nodes[ids[i]].content])
             /\ nodes'[merged].metadata = {}
             /\ nodes'[merged].ancestry = <<>>
             /\ \A k \in 1..Len(edges') :
                    \A i \in 1..Len(edges'[k]) :
                        edges'[k][i] \notin SetOf(ids) \cup {merged}]_vars

\* C12 happens: two pieces of a split node, linked by a hyperedge, were
\* merged in the order opposite to the content's
MergedInGivenOrder ==
    /\ last.op = "merge"
    /\ Len(last.ids) = 2
    /\ last.ids[1] > last.ids[2]
    /\ nodes[nextId - 1].content = <<"b", "a">>

\* the offsets are sorted
IsSorted(b) == \A i \in 1..(Len(b) - 1) : b[i] <= b[i + 1]

\* the slice a piece holds: the i-th of the pieces content is cut into at
\* the sorted offsets b
PieceOf(content, b, i) ==
    LET lo == IF i = 1 THEN 0 ELSE b[i - 1]
        hi == IF i = Len(b) + 1 THEN Len(content) ELSE b[i]
    IN [j \in 1..(hi - lo) |-> content[lo + j]]

\* the number of stored occurrences of hyperedge e after the step
Occurrences(es, e) == Cardinality({j \in 1..Len(es) : es[j] = e})

\* C13: split(id, boundary) with sorted offsets creates len(boundary)+1 new
\* nodes holding the contiguous slices in order, returns their identifiers
\* in content order, removes id, stores exactly one hyperedge for each
\* consecutive pair of pieces and gives the later piece of a pair the
\* ancestry [[earlier piece]]; for a node with no parents and no children
\* no other stored hyperedge touches a piece.
SplitEffect ==
    [][(last'.op = "split" /\ IsSorted(last'.boundary)) =>
          LET id == last'.id
              b == last'.boundary
              ps == SplitNodes(nextId, Len(b))
              content == nodes[id].content
          IN /\ DOMAIN nodes' = (DOMAIN nodes \ {id}) \cup SetOf(ps)
             /\ SetOf(ps) \cap DOMAIN nodes = {}
             /\ \A i \in 1..Len(ps) :
                    nodes'[ps[i]].content = PieceOf(content, b, i)
             /\ Join([i \in 1..Len(ps) |-> nodes'[ps[i]].content]) = content
             /\ \A i \in 1..(Len(ps) - 1) :
                    /\ Occurrences(edges', <<ps[i], ps[i + 1]>>) = 1
                    /\ nodes'[ps[i + 1]].ancestry = << <<ps[i]>> >>
             /\ (nodes[id].ancestry = <<>> /\ get_children(G, id) = <<>>) =>
                    \A j \in 1..Len(edges') :
                        SetOf(edges'[j]) \cap SetOf(ps) # {} =>
                            \E i \in 1..(Len(ps) - 1) :
                                edges'[j] = <<ps[i], ps[i + 1]>>]_vars

\* C13 happens: a split at two different offsets left three pieces linked
\* by two hyperedges
SplitInThree ==
    /\ last.op = "split"
    /\ Len(last.boundary) = 2
    /\ last.boundary[1] < last.boundary[2]
    /\ Contains(edges, <<nextId - 3, nextId - 2>>)
    /\ Contains(edges, <<nextId - 2, nextId - 1>>)

\* C14: after split(id, boundary) every former child c of id is under the
\* last new piece: the hyperedge [last, c] is stored, get_children(last)
\* contains c, and c's ancestry contains the entry [last].
ChildrenReparented ==
    [][last'.op = "split" =>
          LET id == last'.id
              lastPiece == nextId' - 1
          IN \A c \in SetOf(get_children(G, id)) \ {id} :
                 /\ Contains(edges', <<lastPiece, c>>)
                 /\ Contains(get_children(GNext, lastPiece), c)
                 /\ Contains(nodes'[c].ancestry, <<lastPiece>>)]_vars

\* a lineage with the identifier id replaced by first
Renamed(path, id, first) ==
    [i \in 1..Len(path) |-> IF path[i] = id THEN first ELSE path[i]]

\* C15: on an acyclic graph whose caches hold every stored hyperedge's
\* entries, after split(id, boundary) of a non-root id the hyperedge
\* reverse(p) + [first] is stored for every ancestry entry p that id had,
\* and get_ancestry(first) is get_ancestry(id) as it was, with id replaced
\* by first.
LineagePreserved ==
    [][(/\ last'.op = "split"
        /\ AcyclicRel(Before)
        /\ AncestryConsistent
        /\ nodes[last'.id].ancestry # <<>>) =>
          LET id == last'.id
              first == nextId
              was == get_ancestry(G, id)
          IN /\ \A j \in 1..Len(nodes[id].ancestry) :
                    Contains(edges',
                             Reverse(nodes[id].ancestry[j]) \o <<first>>)
             /\ get_ancestry(GNext, first) =
                    Lineages([k \in 1..Len(was.paths) |->
                                  Renamed(was.paths[k], id, first)])]_vars

\* C21: get_ancestry(id) terminates for every id of every graph built by
\* add_node and add_edge, graphs whose hyperedges form a cycle included.
GetAncestryTerminates ==
    \A id \in DOMAIN nodes : get_ancestry(G, id).err # "RecursionError"

\* C23: whenever the materialized children relation contains a cycle,
\* check_for_cycles() returns true, also when the graph has a root from
\* which the cycle is not reachable.
CyclesDetected == ~AcyclicRel(ChildOf) => check_for_cycles(G)

(***************************************************************************)
(* content_lineage on graphs built by add_node and add_edge (SpecBuild).   *)
(***************************************************************************)
\* the target contents queried
Targets == { <<"a", "b">>, <<"a", "b", "a", "b">> }

\* the contents of the nodes of path, concatenated in order
ContentsAlong(path) == Join([i \in 1..Len(path) |-> nodes[path[i]].content])

\* the lineages of the stored nodes, in root-to-node order
StoredLineages ==
    UNION { {Reverse(p) : p \in SetOf(get_ancestry(G, n).paths)} :
                n \in DOMAIN nodes }

\* C17: a non-empty result of content_lineage(content) is a lineage of a
\* stored node in root-to-node order whose contents, concatenated, equal
\* the target exactly; when no stored lineage regenerates the target, the
\* result is the empty sequence.
ContentLineageRegenerates ==
    \A t \in Targets :
        LET r == content_lineage(G, t)
        IN r.err = "ok" =>
               /\ r.path # <<>> =>
                      /\ r.path \in StoredLineages
                      /\ ContentsAlong(r.path) = t
               /\ (\A p \in StoredLineages : ContentsAlong(p) # t) =>
                      r.path = <<>>

(***************************************************************************)
(* refactor (SpecRefactor).                                                *)
(***************************************************************************)
\* the nodes reached from a root along the children relation
RootReachable ==
    ReachedIn(ChildOf, SetOf(get_roots(G)), Cardinality(DOMAIN nodes))

\* n has a mergeable child: a child with value-equal content, or exactly
\* one child
HasMergeableChild(n) ==
    LET children == get_children(G, n)
    IN \/ Len(children) = 1
       \/ \E i \in 1..Len(children) :
              nodes[children[i]].content = nodes[n].content

\* no node reachable from a root has a mergeable child
NoMergeableChild == \A n \in RootReachable : ~HasMergeableChild(n)

\* C16: when refactor() returns (here: called on an acyclic graph whose
\* caches hold every stored hyperedge's entries), no node reachable from a
\* root through the children relation has a mergeable child.
RefactorLeavesNoMergeable ==
    [][(/\ last'.op = "refactor"
        /\ last'.err = "ok"
        /\ AcyclicRel(Before)
        /\ AncestryConsistent) => NoMergeableChild']_vars

\* C20: refactor() on an acyclic graph built by add_node and add_edge (its
\* caches hold every stored hyperedge's entries) completes without a
\* node-not-found failure.
RefactorFindsItsNodes ==
    [][(last'.op = "refactor" /\ AcyclicRel(Before) /\ AncestryConsistent) =>
          last'.err # "KeyError"]_vars

(***************************************************************************)
(* common_ancestor on trees of two-identifier hyperedges (SpecTree).       *)
(***************************************************************************)
\* n and the nodes above it
SelfAndAbove(n) == {n} \cup SetOf(UpChain(edges, n))

\* the depth of n: the number of nodes above it
Depth(n) == Len(UpChain(edges, n))

\* C10: for two nodes of a tree that share a proper ancestor,
\* common_ancestor returns the deepest node that is an ancestor of both and
\* not a queried node, whatever the iteration order of the intermediate set.
NearestCommonAncestor ==
    \A a \in DOMAIN nodes :
        \A b \in DOMAIN nodes \ {a} :
            LET shared == (SelfAndAbove(a) \cap SelfAndAbove(b)) \ {a, b}
                deepest == CHOOSE x \in shared :
                               \A y \in shared : Depth(y) <= Depth(x)
            IN shared # {} =>
                   common_ancestor(G, <<a, b>>) = {Outcome("id", deepest)}

====
